---- MODULE Spec2Model ----
(***************************************************************************)
(* A model of scripts/cleaner.py (class DataCleaner).                      *)
(*                                                                         *)
(* The state is the DataFrame the caller holds (df), the call just made    *)
(* (call), the DataFrame as it was when that call was made (df0) and what  *)
(* the call returned or raised (ret).  Every action is one DataCleaner     *)
(* method, applied to df; methods that work in place change df, the        *)
(* others only produce ret.                                                *)
(*                                                                         *)
(* Numbers are exact rationals n/d in lowest terms (pandas computes in     *)
(* float64; the model keeps the exact value).  A cell is a record          *)
(*   [k, n, d, s]   k = "num"    the number n/d                            *)
(*                  k = "nan"    numpy NaN / a missing number              *)
(*                  k = "str"    the Python string s                       *)
(*                  k = "none"   None in an object column                  *)
(*                  k = "method" a bound-method object (Series.median)     *)
(* Column labels are sequences of characters, so that str.replace and      *)
(* str.lower act on them character by character.                           *)
(*                                                                         *)
(* Not modelled: convert_to_datetime, convert_to_string, the three         *)
(* scalers, percent_missing and the logging done by log_decorator (which   *)
(* re-raises what the method raised); datetime64 columns; and label        *)
(* lookups df[col] on a frame whose labels are not unique (such a lookup   *)
(* yields a frame, not a column): the methods that look columns up by      *)
(* label are only called here while the labels are unique.                 *)
(*                                                                         *)
(* Three specifications share the actions and differ in the frames the     *)
(* caller starts from: Spec (a numeric and an object column, or one object *)
(* column), SpecOutliers (one numeric column) and SpecNames (two columns   *)
(* whose labels range over a small alphabet).                              *)
(***************************************************************************)
EXTENDS Integers, Sequences, FiniteSets, TLC

VARIABLES df, df0, call, ret

vars == <<df, df0, call, ret>>

\* ------------------------------------------------------------------ bounds

\* rows of the two-column frames of Spec
MaxRows == 3
\* rows of the one-column numeric frames of SpecOutliers
MaxLen == 5
\* rows of the one-column object frames of Spec
MaxText == 4
\* characters in a column label of SpecNames
MaxNameLen == 2

\* ------------------------------------------------------------------- cells

Num(n, d) == [k |-> "num", n |-> n, d |-> d, s |-> ""]
Int2Num(n) == Num(n, 1)
NaN == [k |-> "nan", n |-> 0, d |-> 1, s |-> ""]
None == [k |-> "none", n |-> 0, d |-> 1, s |-> ""]
Str(x) == [k |-> "str", n |-> 0, d |-> 1, s |-> x]
MethodObject == [k |-> "method", n |-> 0, d |-> 1, s |-> "Series.median"]

\* Series.isnull
IsNull(c) == c.k \in {"nan", "none"}

\* ------------------------------------------------------- exact arithmetic

Abs(x) == IF x < 0 THEN -x ELSE x

RECURSIVE GCD(_, _)
GCD(a, b) == IF b = 0 THEN a ELSE GCD(b, a % b)

\* n/d in lowest terms, d > 0
Norm(n, d) ==
    LET g == GCD(Abs(n), d)
    IN  Num(n \div g, d \div g)

RAdd(a, b) == Norm(a.n * b.d + b.n * a.d, a.d * b.d)
RSub(a, b) == Norm(a.n * b.d - b.n * a.d, a.d * b.d)
\* a * p / q, q > 0
RScale(a, p, q) == Norm(a.n * p, a.d * q)
RLt(a, b) == a.n * b.d < b.n * a.d
RLe(a, b) == a.n * b.d <= b.n * a.d

\* ------------------------------------------------------------------ frames

Frame(columns, dtypes, rows) == [columns |-> columns, dtypes |-> dtypes, rows |-> rows]

NCols(f) == Len(f.columns)
Column(rows, j) == [i \in 1..Len(rows) |-> rows[i][j]]
SetColumn(rows, j, col) == [i \in 1..Len(rows) |-> [rows[i] EXCEPT ![j] = col[i]]]

RECURSIVE SelectIdx(_, _, _)
\* the positions j0..Len(dtypes) whose dtype is in kinds, in column order
SelectIdx(dtypes, kinds, j0) ==
    IF j0 > Len(dtypes) THEN <<>>
    ELSE IF dtypes[j0] \in kinds
         THEN <<j0>> \o SelectIdx(dtypes, kinds, j0 + 1)
         ELSE SelectIdx(dtypes, kinds, j0 + 1)

get_numerical_columns(f) == SelectIdx(f.dtypes, {"number"}, 1)
get_categorical_columns(f) == SelectIdx(f.dtypes, {"object"}, 1)

UniqueLabels(f) ==
    \A i, j \in 1..NCols(f) : f.columns[i] = f.columns[j] => i = j

\* ------------------------------------------------------------ return values

NoFrame == Frame(<<>>, <<>>, <<>>)
Returned(f) == [kind |-> "frame", exc |-> "", val |-> NaN, frame |-> f]
Value(v) == [kind |-> "value", exc |-> "", val |-> v, frame |-> NoFrame]
Raised(e) == [kind |-> "raise", exc |-> e, val |-> NaN, frame |-> NoFrame]
NoReturn == [kind |-> "none", exc |-> "", val |-> NaN, frame |-> NoFrame]

Call(op, col, method) == [op |-> op, col |-> col, method |-> method]

\* ----------------------------------------------------------- pandas pieces

NonNull(col) == SelectSeq(col, LAMBDA c : ~IsNull(c))
CountNull(col) == Cardinality({i \in 1..Len(col) : IsNull(col[i])})
Occurrences(col, v) == Cardinality({i \in 1..Len(col) : col[i] = v})
Values(col) == {col[i] : i \in 1..Len(col)}

\* Python's order on the strings of the model
Alphabetical == <<"a", "b", "nan">>
StrRank(x) == CHOOSE i \in 1..Len(Alphabetical) : Alphabetical[i] = x
CellLt(a, b) == IF a.k = "num" THEN RLt(a, b) ELSE StrRank(a.s) < StrRank(b.s)

\* Series.mode(): the most frequent non-null values; the result is sorted,
\* so mode()[0] is the least of them.
ModeValues(col) ==
    LET vs == Values(NonNull(col))
    IN  {v \in vs : \A w \in vs : Occurrences(col, w) <= Occurrences(col, v)}
ModeFirst(col) ==
    CHOOSE v \in ModeValues(col) : \A w \in ModeValues(col) : w = v \/ CellLt(v, w)

\* Series.fillna(value): a NaN value fills nothing
FillNa(col, v) == [i \in 1..Len(col) |-> IF IsNull(col[i]) THEN v ELSE col[i]]

RECURSIVE FFillFrom(_, _)
\* Series.fillna(method='ffill'): last is the nearest earlier non-null value
FFillFrom(col, last) ==
    IF col = <<>> THEN <<>>
    ELSE IF IsNull(Head(col))
         THEN <<last>> \o FFillFrom(Tail(col), last)
         ELSE <<Head(col)>> \o FFillFrom(Tail(col), Head(col))
FFill(col) == IF col = <<>> THEN <<>> ELSE FFillFrom(col, Head(col))

Reverse(col) == [i \in 1..Len(col) |-> col[Len(col) + 1 - i]]
\* Series.fillna(method='bfill')
BFill(col) == Reverse(FFill(Reverse(col)))

RECURSIVE Insert(_, _)
Insert(sorted, v) ==
    IF sorted = <<>> THEN <<v>>
    ELSE IF RLe(v, Head(sorted)) THEN <<v>> \o sorted
         ELSE <<Head(sorted)>> \o Insert(Tail(sorted), v)
RECURSIVE Sort(_)
Sort(col) == IF col = <<>> THEN <<>> ELSE Insert(Sort(Tail(col)), Head(col))

RECURSIVE Sum(_)
Sum(col) == IF col = <<>> THEN Int2Num(0) ELSE RAdd(Head(col), Sum(Tail(col)))

\* Series.mean(), skipna: NaN when nothing is left
Mean(col) ==
    LET vs == NonNull(col)
    IN  IF vs = <<>> THEN NaN ELSE RScale(Sum(vs), 1, Len(vs))

\* Series.median(), skipna
Median(col) ==
    LET vs == Sort(NonNull(col))
        n == Len(vs)
    IN  IF n = 0 THEN NaN
        ELSE IF n % 2 = 1 THEN vs[(n + 1) \div 2]
        ELSE RScale(RAdd(vs[n \div 2], vs[n \div 2 + 1]), 1, 2)

\* quantile(interpolation='midpoint'): half way between the two
QuantileMidpoint(col, p, q) ==
    LET vs == Sort(SelectSeq(col, LAMBDA c : ~IsNull(c)))
        n == Len(vs)
        h == p * (n - 1)
        lo == h \div q
    IN  IF n = 0 THEN NaN
        ELSE IF h % q = 0 THEN vs[lo + 1]
        ELSE RScale(RAdd(vs[lo + 1], vs[lo + 2]), 1, 2)

\* Series.quantile(p/q), skipna, linear interpolation between the two
\* nearest order statistics; NaN when nothing is left
Quantile(col, p, q) ==
    LET vs == Sort(NonNull(col))
        n == Len(vs)
        h == p * (n - 1)
        lo == h \div q
        frac == h % q
    IN  IF n = 0 THEN NaN
        ELSE IF frac = 0 THEN vs[lo + 1]
        ELSE RAdd(vs[lo + 1], RScale(RSub(vs[lo + 2], vs[lo + 1]), frac, q))

\* x < y and x > y of numpy: False as soon as one side is NaN
NumLt(x, y) == x.k = "num" /\ y.k = "num" /\ RLt(x, y)
NumGt(x, y) == NumLt(y, x)

\* drop_duplicates(keep='last'): a row equal to a later row goes
DropDuplicatesKeepLast(rows) ==
    LET kept == SelectSeq([i \in 1..Len(rows) |-> <<i, rows[i]>>],
                          LAMBDA p : \A j \in (p[1] + 1)..Len(rows) : rows[j] # p[2])
    IN  [k \in 1..Len(kept) |-> kept[k][2]]

\* DataFrame.drop_duplicates(): a row equal to an earlier row goes
RECURSIVE DropDuplicatesInto(_, _)
DropDuplicatesInto(rows, kept) ==
    IF rows = <<>> THEN kept
    ELSE IF \E i \in 1..Len(kept) : kept[i] = Head(rows)
         THEN DropDuplicatesInto(Tail(rows), kept)
         ELSE DropDuplicatesInto(Tail(rows), Append(kept, Head(rows)))
DropDuplicates(rows) == DropDuplicatesInto(rows, <<>>)

\* str.lower and str.replace(' ', '_') on the characters of the model
LowerChar(c) == IF c = "A" THEN "a" ELSE c
ReplaceSpace(c) == IF c = " " THEN "_" ELSE c
CleanLabel(label) == [i \in 1..Len(label) |-> LowerChar(ReplaceSpace(label[i]))]

\* round(x / y * 100, 2) for integers x >= 0, y > 0: numpy rounds half to even
Round2(x, y) ==
    LET a == 10000 * x
        quo == a \div y
        rem == a % y
        h == IF 2 * rem < y THEN quo
             ELSE IF 2 * rem > y THEN quo + 1
             ELSE IF quo % 2 = 0 THEN quo ELSE quo + 1
    IN  Norm(h, 100)

\* ------------------------------------------------------ DataCleaner methods
\* Each gives [frame |-> the caller's DataFrame after the call,
\*             ret   |-> what the call returned or raised].

Outcome(f, r) == [frame |-> f, ret |-> r]
WithRows(f, rows) == Frame(f.columns, f.dtypes, rows)

drop_duplicate(f) ==
    LET g == WithRows(f, DropDuplicates(f.rows))
    IN  Outcome(g, Returned(g))

remove_whitespace_column(f) ==
    LET g == Frame([j \in 1..NCols(f) |-> CleanLabel(f.columns[j])], f.dtypes, f.rows)
    IN  Outcome(g, Returned(g))

\* col is a label; the KeyError of df[col] is re-raised
percent_missing_column(f, col) ==
    IF \A j \in 1..NCols(f) : f.columns[j] # col
    THEN Outcome(f, Raised("KeyError"))
    ELSE LET j == CHOOSE j \in 1..NCols(f) : f.columns[j] = col
             col_len == Len(f.rows)
             missing_count == CountNull(Column(f.rows, j))
         IN  IF col_len = 0
             THEN Outcome(f, Value(NaN))
             ELSE Outcome(f, Value(Round2(missing_count, col_len)))

RECURSIVE FillCategorical(_, _, _)
\* the loop over the categorical columns; mode()[0] of a column with no
\* non-null value raises, after the columns before it were filled
FillCategorical(rows, cols, method) ==
    IF cols = <<>> THEN [rows |-> rows, exc |-> ""]
    ELSE LET col == Column(rows, Head(cols))
         IN  IF method = "mode" /\ ModeValues(col) = {}
             THEN [rows |-> rows, exc |-> "KeyError"]
             ELSE LET filled == IF method = "ffill" THEN FFill(col)
                                ELSE IF method = "bfill" THEN BFill(col)
                                ELSE FillNa(col, ModeFirst(col))
                  IN  FillCategorical(SetColumn(rows, Head(cols), filled),
                                      Tail(cols), method)

fill_missing_values_categorical(f, method) ==
    IF method \in {"ffill", "bfill", "mode"}
    THEN LET res == FillCategorical(f.rows, get_categorical_columns(f), method)
             g == WithRows(f, res.rows)
         IN  IF res.exc = "" THEN Outcome(g, Returned(g))
             ELSE Outcome(g, Raised(res.exc))
    ELSE Outcome(f, Raised("ValueError"))

RECURSIVE FillNumeric(_, _, _)
\* the loop over the numeric columns
FillNumeric(rows, cols, method) ==
    IF cols = <<>> THEN rows
    ELSE LET col == Column(rows, Head(cols))
             v == IF method = "mean" THEN Mean(col) ELSE Median(col)
         IN  FillNumeric(SetColumn(rows, Head(cols), FillNa(col, v)),
                         Tail(cols), method)

fill_missing_values_numeric_median_by_default(f, method) ==
    LET g == WithRows(f, FillNumeric(f.rows, get_numerical_columns(f),
                                     IF method = "mean" THEN "mean" ELSE "median"))
    IN  Outcome(g, Returned(g))

\* columns = None: all numeric columns
fill_missing_values_numeric(f, method) ==
    IF method \in {"mean", "median"}
    THEN LET g == WithRows(f, FillNumeric(f.rows, get_numerical_columns(f), method))
         IN  Outcome(g, Returned(g))
    ELSE Outcome(f, Raised("ValueError"))

RECURSIVE DropNanStrings(_, _)
\* df = df[df[col] != 'nan'] over the categorical columns: None != 'nan'
DropNanStrings(rows, cols) ==
    IF cols = <<>> THEN rows
    ELSE DropNanStrings(SelectSeq(rows, LAMBDA r : r[Head(cols)] # Str("nan")),
                        Tail(cols))

\* the caller's frame stays as it is; the filtered frame is returned
remove_nan_categorical(f) ==
    Outcome(f, Returned(WithRows(f, DropNanStrings(f.rows, get_categorical_columns(f)))))

\* np.where(col < bound, x, col) and np.where(col > bound, x, col)
WhereLt(col, bound, x) ==
    [i \in 1..Len(col) |-> IF NumLt(col[i], bound) THEN x ELSE col[i]]
WhereGt(col, bound, x) ==
    [i \in 1..Len(col) |-> IF NumGt(col[i], bound) THEN x ELSE col[i]]

lower_bound(col) ==
    LET q1 == Quantile(col, 1, 4)
        q3 == Quantile(col, 3, 4)
    IN  IF q1.k = "nan" THEN NaN ELSE RSub(q1, RScale(RSub(q3, q1), 3, 2))
upper_bound(col) ==
    LET q1 == Quantile(col, 1, 4)
        q3 == Quantile(col, 3, 4)
    IN  IF q1.k = "nan" THEN NaN ELSE RAdd(q3, RScale(RSub(q3, q1), 3, 2))

\* only the values below the lower bound are replaced
ClipLowerOnly(col, lo, hi) ==
    [i \in 1..Len(col) |-> IF NumLt(col[i], lo) THEN lo ELSE col[i]]

\* the two np.where of the default branch
ClipIQR(col, lo, hi) == WhereGt(WhereLt(col, lo, lo), hi, hi)

\* j is the position of the (numeric) column col; the work is done on a copy
handle_outliers(f, j, method) ==
    LET col == Column(f.rows, j)
        lo == lower_bound(col)
        hi == upper_bound(col)
    IN  IF method = "mode"
        THEN IF ModeValues(col) = {}
             THEN Outcome(f, Raised("KeyError"))
             ELSE LET col1 == WhereLt(col, lo, ModeFirst(col))
                      col2 == WhereGt(col1, hi, ModeFirst(col1))
                  IN  Outcome(f, Returned(WithRows(f, SetColumn(f.rows, j, col2))))
        ELSE IF method = "median"
        THEN LET col1 == WhereLt(col, lo, MethodObject)
             IN  IF MethodObject \in Values(col1)
                 THEN Outcome(f, Raised("TypeError"))
                 ELSE Outcome(f, Returned(WithRows(f,
                          SetColumn(f.rows, j, WhereGt(col1, hi, MethodObject)))))
        ELSE Outcome(f, Returned(WithRows(f, SetColumn(f.rows, j, ClipIQR(col, lo, hi)))))

\* ------------------------------------------------------------------ inputs

NumCells == {NaN, Int2Num(1), Int2Num(2)}
ObjCells == {None, Str("a")}
TextCells == {None, Str("a"), Str("b"), Str("nan")}
SeqsUpTo(S, n) == UNION {[1..m -> S] : m \in 0..n}

\* Spec: a numeric column "X" and an object column "H T", ...
TableFrames ==
    {Frame(<<<<"X">>, <<"H", " ", "T">>>>, <<"number", "object">>, rows) :
        rows \in SeqsUpTo({<<x, h>> : x \in NumCells, h \in ObjCells}, MaxRows)}

\* ... or one object column "h"
TextFrames ==
    {Frame(<<<<"h">>>>, <<"object">>, rows) :
        rows \in SeqsUpTo({<<h>> : h \in TextCells}, MaxText)}

\* SpecOutliers: one numeric column "x"; the column 1, 2, 3, 100 is among them
OutlierCells == {NaN} \cup {Int2Num(v) : v \in {1, 2, 100}}
ExampleColumn == <<Int2Num(1), Int2Num(2), Int2Num(3), Int2Num(100)>>
ColumnFrames ==
    {Frame(<<<<"x">>>>, <<"number">>, rows) :
        rows \in SeqsUpTo({<<x>> : x \in OutlierCells}, MaxLen)
                 \cup {[i \in 1..Len(ExampleColumn) |-> <<ExampleColumn[i]>>]}}

\* SpecNames: two columns with distinct labels over a small alphabet
LabelChars == {"A", "a", " ", "_"}
Labels == SeqsUpTo(LabelChars, MaxNameLen) \ {<<>>}
LabelPairs == {p \in Labels \X Labels : p[1] # p[2]}
LabelledFrames ==
    {Frame(p, <<"number", "object">>, rows) :
        p \in LabelPairs,
        rows \in {<<>>, <<<<Int2Num(1), Str("a")>>>>, <<<<NaN, None>>>>}}

AbsentLabel == <<"z">>
CategoricalMethods == {"ffill", "bfill", "mode", "pad"}
NumericMethods == {"mean", "median", "mode"}
OutlierMethods == {"IQR", "mode", "median"}

\* ----------------------------------------------------------------- actions

Do(c, out) ==
    /\ df0' = df
    /\ call' = c
    /\ df' = out.frame
    /\ ret' = out.ret

DropDuplicate ==
    Do(Call("drop_duplicate", <<>>, ""), drop_duplicate(df))

RemoveWhitespaceColumn ==
    Do(Call("remove_whitespace_column", <<>>, ""), remove_whitespace_column(df))

PercentMissingColumn ==
    /\ UniqueLabels(df)
    /\ \E col \in Values(df.columns) \cup {AbsentLabel} :
          Do(Call("percent_missing_column", col, ""), percent_missing_column(df, col))

FillMissingValuesCategorical ==
    /\ UniqueLabels(df)
    /\ \E method \in CategoricalMethods :
          Do(Call("fill_missing_values_categorical", <<>>, method),
             fill_missing_values_categorical(df, method))

FillMissingValuesNumeric ==
    /\ UniqueLabels(df)
    /\ \E method \in NumericMethods :
          Do(Call("fill_missing_values_numeric", <<>>, method),
             fill_missing_values_numeric(df, method))

RemoveNanCategorical ==
    /\ UniqueLabels(df)
    /\ Do(Call("remove_nan_categorical", <<>>, ""), remove_nan_categorical(df))

HandleOutliers ==
    /\ UniqueLabels(df)
    /\ \E j \in 1..NCols(df), method \in OutlierMethods :
          /\ df.dtypes[j] = "number"
          /\ Do(Call("handle_outliers", df.columns[j], method),
                handle_outliers(df, j, method))

Start(frames) ==
    /\ df \in frames
    /\ df0 = df
    /\ call = Call("", <<>>, "")
    /\ ret = NoReturn

Init == Start(TableFrames \cup TextFrames)
InitOutliers == Start(ColumnFrames)
InitNames == Start(LabelledFrames)

Next ==
    \/ DropDuplicate
    \/ RemoveWhitespaceColumn
    \/ PercentMissingColumn
    \/ FillMissingValuesCategorical
    \/ FillMissingValuesNumeric
    \/ RemoveNanCategorical
    \/ HandleOutliers

Spec == Init /\ [][Next]_vars
SpecOutliers == InitOutliers /\ [][Next]_vars
SpecNames == InitNames /\ [][Next]_vars

\* ------------------------------------------------------------ properties

\* the position of the column the last call named, its cells when the call
\* was made and its cells in the frame the call returned
ColIdx == CHOOSE j \in 1..NCols(df0) : df0.columns[j] = call.col
Col0 == Column(df0.rows, ColIdx)
ColOut == Column(ret.frame.rows, ColIdx)
Within(c, lo, hi) ==
    c.k = "num" /\ lo.k = "num" /\ hi.k = "num" /\ RLe(lo, c) /\ RLe(c, hi)
Clipped == call.op = "handle_outliers" /\ call.method = "IQR"

\* C1 (as claimed): after handle_outliers with the default method every
\* entry of the result column, null entries included, is a number within
\* [Q1 - 1.5 IQR, Q3 + 1.5 IQR] of the input column.
C1_EveryEntryWithinBounds ==
    Clipped =>
        /\ ret.kind = "frame"
        /\ Len(ColOut) = Len(Col0)
        /\ \A i \in 1..Len(Col0) :
              Within(ColOut[i], lower_bound(Col0), upper_bound(Col0))

\* C1 (amended): after handle_outliers with the default method every
\* non-null entry of the result column is within [Q1 - 1.5 IQR, Q3 + 1.5 IQR],
\* the quartiles being those of the non-null entries of the input column,
\* and every null entry is still null; the caller's frame is untouched.
C1_NonNullWithinBounds ==
    Clipped =>
        /\ ret.kind = "frame"
        /\ df = df0
        /\ Len(ColOut) = Len(Col0)
        /\ \A i \in 1..Len(Col0) :
              IF IsNull(Col0[i]) THEN ColOut[i] = Col0[i]
              ELSE Within(ColOut[i], lower_bound(Col0), upper_bound(Col0))

\* C1 witness: a column with a null entry in which a value was clipped
C1_ClippedBesideNull ==
    /\ Clipped
    /\ \E i \in 1..Len(Col0) : IsNull(Col0[i])
    /\ \E i \in 1..Len(Col0) : ColOut[i] # Col0[i]

\* C2 (as claimed): fill_missing_values_numeric with "mean" and no column
\* list leaves no null in any numeric column.
C2_MeanFillLeavesNoNull ==
    (call.op = "fill_missing_values_numeric" /\ call.method = "mean") =>
        /\ ret = Returned(df)
        /\ \A i \in 1..Len(df.rows), j \in 1..NCols(df) :
              df.dtypes[j] = "number" => ~IsNull(df.rows[i][j])

\* C3 (as claimed): after any sequence of calls the column labels are
\* pairwise distinct and every row has one cell per column.
C3_DatasetInvariants ==
    /\ UniqueLabels(df)
    /\ Len(df.dtypes) = NCols(df)
    /\ \A i \in 1..Len(df.rows) : Len(df.rows[i]) = NCols(df)

\* C4 (as claimed): percent_missing_column of a column of the frame returns
\* a number in [0, 100] with two decimals, also for a frame with no rows;
\* for a label that is no column it raises KeyError.
C4_PercentInRange ==
    call.op = "percent_missing_column" =>
        IF call.col \in Values(df0.columns)
        THEN /\ ret.kind = "value"
             /\ Within(ret.val, Int2Num(0), Int2Num(100))
             /\ 100 % ret.val.d = 0
        ELSE ret = Raised("KeyError")

\* C5: both fill methods, given a method they do not know, raise ValueError
\* and leave the frame as it was.
C5_UnknownMethodRaisesUnchanged ==
    (\/ call.op = "fill_missing_values_categorical"
        /\ call.method \notin {"ffill", "bfill", "mode"}
     \/ call.op = "fill_missing_values_numeric"
        /\ call.method \notin {"mean", "median"}) =>
        /\ ret = Raised("ValueError")
        /\ df = df0

\* C5 witness: the numeric fill was refused on a frame with something to fill
C5_RefusedWithNulls ==
    /\ call.op = "fill_missing_values_numeric"
    /\ call.method = "mode"
    /\ ret.kind = "raise"
    /\ \E i \in 1..Len(df0.rows), j \in 1..NCols(df0) :
          df0.dtypes[j] = "number" /\ IsNull(df0.rows[i][j])

\* the rows that equal no earlier row, and the k-th of them
FirstIdx(rows) == {i \in 1..Len(rows) : \A j \in 1..(i - 1) : rows[j] # rows[i]}
KthFirst(rows, k) ==
    CHOOSE i \in FirstIdx(rows) : Cardinality({j \in FirstIdx(rows) : j <= i}) = k

\* C6: drop_duplicate keeps exactly the first occurrence of each distinct
\* row, in the order of those first occurrences, and applying it to its own
\* result changes nothing.
C6_FirstOccurrencesIdempotent ==
    call.op = "drop_duplicate" =>
        /\ ret = Returned(df)
        /\ df.columns = df0.columns
        /\ Len(df.rows) = Cardinality(FirstIdx(df0.rows))
        /\ \A k \in 1..Len(df.rows) : df.rows[k] = df0.rows[KthFirst(df0.rows, k)]
        /\ drop_duplicate(df).frame = df

\* C6 witness: a row was dropped that repeats a row two places earlier
C6_DroppedLaterRepeat ==
    /\ call.op = "drop_duplicate"
    /\ Len(df0.rows) >= 3
    /\ df0.rows[1] = df0.rows[3]
    /\ df0.rows[1] # df0.rows[2]
    /\ Len(df.rows) < Len(df0.rows)

\* C7 (as claimed): remove_nan_categorical returns exactly the rows that
\* hold neither a null nor the placeholder 'nan' in a categorical column,
\* in their original order.
C7_NoNullOrPlaceholderLeft ==
    call.op = "remove_nan_categorical" =>
        /\ ret.kind = "frame"
        /\ ret.frame.rows =
              SelectSeq(df0.rows,
                        LAMBDA r : \A j \in 1..NCols(df0) :
                            df0.dtypes[j] = "object" =>
                                ~IsNull(r[j]) /\ r[j] # Str("nan"))

\* C8 (as claimed): for the column 1, 2, 3, 100 handle_outliers with the
\* default method returns the column unchanged.
C8_ExampleUnchanged ==
    (Clipped /\ Col0 = ExampleColumn) =>
        ret.kind = "frame" /\ ColOut = ExampleColumn

\* C8 (amended): for the column 1, 2, 3, 100 the bounds are -36.5 and 65.5
\* (Q1 = 1.75, Q3 = 27.25) and handle_outliers with the default method
\* returns 1, 2, 3, 65.5: the entry 100 is clipped to the upper bound.
C8_ExampleClippedAtUpperBound ==
    (Clipped /\ Col0 = ExampleColumn) =>
        /\ ret.kind = "frame"
        /\ lower_bound(Col0) = Num(-73, 2)
        /\ upper_bound(Col0) = Num(131, 2)
        /\ ColOut = <<Int2Num(1), Int2Num(2), Int2Num(3), Num(131, 2)>>

\* C8 witness: the call was made on the column 1, 2, 3, 100
C8_ExampleClipped == Clipped /\ Col0 = ExampleColumn /\ ret.kind = "frame"

\* C9 (as claimed): fill_missing_values_categorical with "mode" returns,
\* and every null of a categorical column is replaced by a most frequent
\* non-null value of that column, every other cell staying as it was.
C9_ModeFillFillsEveryNull ==
    (call.op = "fill_missing_values_categorical" /\ call.method = "mode") =>
        /\ ret = Returned(df)
        /\ Len(df.rows) = Len(df0.rows)
        /\ \A i \in 1..Len(df0.rows), j \in 1..NCols(df0) :
              IF df0.dtypes[j] = "object" /\ IsNull(df0.rows[i][j])
              THEN df.rows[i][j] \in ModeValues(Column(df0.rows, j))
              ELSE df.rows[i][j] = df0.rows[i][j]

\* C10 (as claimed): handle_outliers with "median" replaces every entry
\* outside the bounds by the median of the column, keeps the others and
\* leaves the caller's frame as it was.
C10_MedianReplacesOutliers ==
    (call.op = "handle_outliers" /\ call.method = "median") =>
        /\ ret.kind = "frame"
        /\ df = df0
        /\ Len(ColOut) = Len(Col0)
        /\ \A i \in 1..Len(Col0) :
              ColOut[i] = IF \/ NumLt(Col0[i], lower_bound(Col0))
                             \/ NumGt(Col0[i], upper_bound(Col0))
                          THEN Median(Col0)
                          ELSE Col0[i]

====
